---------------------------- MODULE Spec2Model ----------------------------
(***************************************************************************)
(* The lexical scanner of src/main.py (class Scanner) as a state machine.  *)
(*                                                                         *)
(* A source text is a sequence of character codes (code points), so that   *)
(* the range comparisons of is_digit / is_alpha are the comparisons the    *)
(* code makes.  Offsets are 0-based as in the code; source[i] of the code  *)
(* is source[i + 1] here.  One action is one pass through the top-level    *)
(* loop of scan_tokens or one evaluation of the condition of one of the    *)
(* inner while loops (comment, string, number, identifier).                *)
(***************************************************************************)
EXTENDS Integers, Sequences, FiniteSets, TLC

----------------------------------------------------------------------------
(* Bounds of the model *)

(* The longest source of a scan, and the longest file the caller reads *)
MaxLen == 4
MaxFileLen == 3

(* The longest source made of identifier, keyword and string characters *)
MaxLexemeLen == 4

(* The longest source made of newlines and of what a line can hold *)
MaxLineLen == 6

(* The longest source of a scan that runs among other scans, and the       *)
(* number of calls of monitor_tokenization                                 *)
MaxSmallLen == 2
MaxCalls == 3

----------------------------------------------------------------------------
(* Character codes *)

NUL == 0
TAB == 9
LF == 10
CR == 13
SPACE == 32
BANG == 33
QUOTE == 34
LPAREN == 40
RPAREN == 41
ASTERISK == 42
PLUS_SIGN == 43
COMMA_SIGN == 44
MINUS_SIGN == 45
FULL_STOP == 46
SOLIDUS == 47
DIGIT_0 == 48
DIGIT_1 == 49
DIGIT_9 == 57
SEMI == 59
LESS_SIGN == 60
EQUAL_SIGN == 61
GREATER_SIGN == 62
AT_SIGN == 64
UPPER_A == 65
UPPER_Z == 90
UNDERSCORE == 95
LOWER_A == 97
LOWER_Z == 122
LBRACE == 123
RBRACE == 125

(* The outcome of indexing the source outside its bounds, and of float()   *)
(* on a text that is not a number.                                         *)
IndexError == -1
ValueError == [kind |-> "ValueError"]

(* The characters the sources of the model are made of. *)
Alphabet ==
    {FULL_STOP, BANG, EQUAL_SIGN, LESS_SIGN, GREATER_SIGN, SOLIDUS, SPACE,
     LF, QUOTE, DIGIT_1, LOWER_A, AT_SIGN}

(* The characters of the files the caller reads: one of each class that   *)
(* starts or ends a loop of the scanner.                                   *)
FileAlphabet ==
    {SOLIDUS, LF, QUOTE, DIGIT_1, FULL_STOP, LOWER_A, EQUAL_SIGN, AT_SIGN}

(* The characters of the sources about identifiers, keywords and strings:  *)
(* i f o r (of "if", "or", "for"), I, '_', '1', '/', '"' and '\'.           *)
LexemeAlphabet ==
    {105, 102, 111, 114, 73, UNDERSCORE, DIGIT_1, SOLIDUS, QUOTE, 92}

(* The characters of the sources about lines: the newline and one         *)
(* character of each class that starts a loop of the scanner.              *)
LineAlphabet == {LF, QUOTE, SOLIDUS, DIGIT_1, LOWER_A}

(* The characters of the sources scanned among other scans *)
SmallAlphabet == {QUOTE, SOLIDUS, DIGIT_1, LOWER_A}

RECURSIVE SeqsUpTo(_, _)
SeqsUpTo(S, n) ==
    IF n = 0 THEN {<<>>}
    ELSE LET shorter == SeqsUpTo(S, n - 1)
         IN  shorter \cup {Append(q, c) : q \in {r \in shorter : Len(r) = n - 1}, c \in S}

Sources == SeqsUpTo(Alphabet, MaxLen)
LexemeSources == SeqsUpTo(LexemeAlphabet, MaxLexemeLen)
LineSources == SeqsUpTo(LineAlphabet, MaxLineLen)
SmallSources == SeqsUpTo(SmallAlphabet, MaxSmallLen)

----------------------------------------------------------------------------
(* Python's str indexing and slicing *)

Min(a, b) == IF a < b THEN a ELSE b
Max(a, b) == IF a > b THEN a ELSE b

(* source[i]: negative i counts from the end, anything else out of range   *)
(* raises IndexError.                                                      *)
Index(src, i) ==
    IF 0 <= i /\ i < Len(src) THEN src[i + 1]
    ELSE IF -Len(src) <= i /\ i < 0 THEN src[Len(src) + i + 1]
    ELSE IndexError

(* source[a:b]: both ends are clipped to the text, never raises. *)
Clip(src, i) == IF i < 0 THEN Max(0, Len(src) + i) ELSE Min(i, Len(src))
Slice(src, a, b) == SubSeq(src, Clip(src, a) + 1, Clip(src, b))

----------------------------------------------------------------------------
(* Token and its literal *)

None == [kind |-> "None"]
StrLiteral(text) == [kind |-> "str", value |-> text]

Token(type, lexeme, literal, line) ==
    [type |-> type, lexeme |-> lexeme, literal |-> literal, line |-> line]

(* float(text) for a text of decimal digits with at most one '.': the      *)
(* value num / 10^exp in lowest decimal terms, so that "1.50" and "1.5",   *)
(* or "01" and "1", are the same number.  Any other text is a ValueError.  *)
RECURSIVE DigitsValue(_)
DigitsValue(ds) ==
    IF ds = <<>> THEN 0
    ELSE 10 * DigitsValue(SubSeq(ds, 1, Len(ds) - 1)) + (ds[Len(ds)] - DIGIT_0)

RECURSIVE Normalize(_, _)
Normalize(num, exp) ==
    IF exp > 0 /\ num % 10 = 0 THEN Normalize(num \div 10, exp - 1)
    ELSE [kind |-> "float", num |-> num, exp |-> exp]

float(text) ==
    LET dots   == {i \in 1..Len(text) : text[i] = FULL_STOP}
        digits == SelectSeq(text, LAMBDA c : c >= DIGIT_0 /\ c <= DIGIT_9)
    IN  IF /\ Cardinality(dots) <= 1
           /\ Len(digits) + Cardinality(dots) = Len(text)
           /\ Len(digits) >= 1
        THEN LET frac == IF dots = {} THEN 0
                         ELSE Len(text) - (CHOOSE i \in dots : TRUE)
             IN  Normalize(DigitsValue(digits), frac)
        ELSE ValueError

----------------------------------------------------------------------------
(* The Scanner object.  pc is the position of the control inside           *)
(* scan_tokens; spans, errpos and reads are history of what the code did:  *)
(* the (start, current) pair of each add_token call, the start offset of   *)
(* the lexeme at each diagnostic, and the offsets at which the last step   *)
(* indexed the source.                                                     *)

Scanner(src) ==
    [source  |-> src,
     tokens  |-> <<>>,
     start   |-> 0,
     current |-> 0,
     line    |-> 1,
     errors  |-> <<>>,
     pc      |-> "scan_tokens",
     spans   |-> <<>>,
     errpos  |-> <<>>,
     reads   |-> {}]

is_at_end(s) == s.current >= Len(s.source)

(* advance: the scanner after the call and the character returned *)
advance(s) ==
    LET t == [s EXCEPT !.current = @ + 1, !.reads = @ \cup {s.current}]
    IN  [s |-> t, ret |-> Index(t.source, t.current - 1)]

(* add_token with the lexeme taken one character late *)
add_token_late_start(s, type, literal) ==
    LET text == Slice(s.source, s.start + 1, s.current)
    IN  [s EXCEPT !.tokens = Append(@, Token(type, text, literal, s.line)),
                  !.spans  = Append(@, <<s.start, s.current>>)]

add_token(s, type, literal) ==
    LET text == Slice(s.source, s.start, s.current)
    IN  [s EXCEPT !.tokens = Append(@, Token(type, text, literal, s.line)),
                  !.spans  = Append(@, <<s.start, s.current>>)]

(* peek without the test for the end of the source *)
peek_unguarded(s) == Index(s.source, s.current)

peek(s) == IF is_at_end(s) THEN NUL ELSE Index(s.source, s.current)
peek_reads(s) == IF is_at_end(s) THEN {} ELSE {s.current}

peek_next(s) ==
    IF s.current + 1 >= Len(s.source) THEN NUL
    ELSE Index(s.source, s.current + 1)
peek_next_reads(s) ==
    IF s.current + 1 >= Len(s.source) THEN {} ELSE {s.current + 1}

(* match that reports the expected character without consuming it *)
match_no_consume(s, expected) ==
    IF is_at_end(s) THEN [s |-> s, ret |-> FALSE]
    ELSE LET t == [s EXCEPT !.reads = @ \cup {s.current}]
         IN  [s |-> t, ret |-> Index(s.source, s.current) = expected]

(* match: the scanner after the call and the boolean returned *)
match(s, expected) ==
    IF is_at_end(s) THEN [s |-> s, ret |-> FALSE]
    ELSE LET t == [s EXCEPT !.reads = @ \cup {s.current}]
         IN  IF Index(s.source, s.current) # expected
             THEN [s |-> t, ret |-> FALSE]
             ELSE [s |-> [t EXCEPT !.current = @ + 1], ret |-> TRUE]

is_digit(char) == char >= DIGIT_0 /\ char <= DIGIT_9

(* is_alpha with the upper-case range starting one character early, at '@' *)
is_alpha_from_at(char) ==
    \/ char >= LOWER_A /\ char <= LOWER_Z
    \/ char >= UPPER_A - 1 /\ char <= UPPER_Z
    \/ char = UNDERSCORE

is_alpha(char) ==
    \/ char >= LOWER_A /\ char <= LOWER_Z
    \/ char >= UPPER_A /\ char <= UPPER_Z
    \/ char = UNDERSCORE

is_alpha_numeric(char) == is_alpha(char) \/ is_digit(char)

reserved_words ==
    <<97, 110, 100>> :> "AND" @@
    <<99, 108, 97, 115, 115>> :> "CLASS" @@
    <<101, 108, 115, 101>> :> "ELSE" @@
    <<102, 97, 108, 115, 101>> :> "FALSE" @@
    <<102, 111, 114>> :> "FOR" @@
    <<102, 117, 110>> :> "FUN" @@
    <<105, 102>> :> "IF" @@
    <<110, 105, 108>> :> "NIL" @@
    <<111, 114>> :> "OR" @@
    <<112, 114, 105, 110, 116>> :> "PRINT" @@
    <<114, 101, 116, 117, 114, 110>> :> "RETURN" @@
    <<115, 117, 112, 101, 114>> :> "SUPER" @@
    <<116, 104, 105, 115>> :> "THIS" @@
    <<116, 114, 117, 101>> :> "TRUE" @@
    <<118, 97, 114>> :> "VAR" @@
    <<119, 104, 105, 108, 101>> :> "WHILE"

(* identifier_type that takes a text beginning with a reserved word for    *)
(* that word                                                               *)
identifier_type_prefix(text) ==
    LET hits == {w \in DOMAIN reserved_words :
                    Len(w) <= Len(text) /\ SubSeq(text, 1, Len(w)) = w}
    IN  IF hits # {} THEN reserved_words[CHOOSE w \in hits : TRUE]
        ELSE "IDENTIFIER"

identifier_type(text) ==
    IF text \in DOMAIN reserved_words THEN reserved_words[text]
    ELSE "IDENTIFIER"

(* error that puts the diagnostic at the head of the list *)
error_prepend(s, message) ==
    [s EXCEPT !.errors = <<(<<"[line ", s.line, "] Error: ">> \o message)>> \o @,
              !.errpos = Append(@, s.start)]

(* error(message): message is the list of the parts of the f-string the    *)
(* caller built; the diagnostic is the list of the parts of                *)
(* f"[line {self.line}] Error: {message}".                                 *)
error(s, message) ==
    [s EXCEPT !.errors = Append(@, <<"[line ", s.line, "] Error: ">> \o message),
              !.errpos = Append(@, s.start)]

UnexpectedCharacter(char) == <<"Unexpected character: ", char>>
UnterminatedString(line) == <<"[line ", line, "] Error: Unterminated string.">>

(* An exception leaves scan_tokens: nothing is returned. *)
Raise(s) == [s EXCEPT !.pc = "raised"]

At(s, label) == [s EXCEPT !.pc = label]

----------------------------------------------------------------------------
(* scan_token: one pass of the top-level dispatch, self.start already set. *)
(* The three sub-scans and the comment are entered here and run in the     *)
(* steps below.                                                            *)

(* self.add_token(two) if self.match("=") else self.add_token(one) *)
operator(s, two, one) ==
    LET m == match(s, EQUAL_SIGN)
    IN  IF m.ret THEN add_token(m.s, two, None) ELSE add_token(m.s, one, None)

scan_token(s) ==
    LET a    == advance(s)
        char == a.ret
        t    == a.s
    IN  IF char = IndexError THEN Raise(t)
        ELSE CASE char = LPAREN       -> add_token(t, "LEFT_PAREN", None)
               [] char = RPAREN       -> add_token(t, "RIGHT_PAREN", None)
               [] char = LBRACE       -> add_token(t, "LEFT_BRACE", None)
               [] char = RBRACE       -> add_token(t, "RIGHT_BRACE", None)
               [] char = ASTERISK     -> add_token(t, "STAR", None)
               [] char = FULL_STOP    -> add_token(t, "DOT", None)
               [] char = COMMA_SIGN   -> add_token(t, "COMMA", None)
               [] char = PLUS_SIGN    -> add_token(t, "PLUS", None)
               [] char = MINUS_SIGN   -> add_token(t, "MINUS", None)
               [] char = SEMI         -> add_token(t, "SEMICOLON", None)
               [] char = BANG         -> operator(t, "BANG_EQUAL", "BANG")
               [] char = EQUAL_SIGN   -> operator(t, "EQUAL_EQUAL", "EQUAL")
               [] char = LESS_SIGN    -> operator(t, "LESS_EQUAL", "LESS")
               [] char = GREATER_SIGN -> operator(t, "GREATER_EQUAL", "GREATER")
               [] char = SOLIDUS ->
                    LET m == match(t, SOLIDUS)
                    IN  IF m.ret THEN At(m.s, "comment")
                        ELSE add_token(m.s, "SLASH", None)
               [] char \in {SPACE, CR, TAB} -> t
               [] char = LF           -> [t EXCEPT !.line = @ + 1]
               [] char = QUOTE        -> At(t, "string")
               [] OTHER ->
                    IF is_digit(char) THEN At(t, "number")
                    ELSE IF is_alpha_numeric(char) THEN At(t, "identifier")
                    ELSE error(t, UnexpectedCharacter(char))

(* the comment loop without the test for the newline *)
comment_to_end(s) ==
    IF ~is_at_end(s) THEN advance(s).s ELSE At(s, "scan_tokens")

(* the comment loop with a body that does not advance *)
comment_no_advance(s) ==
    LET p == peek(s)
        r == [s EXCEPT !.reads = @ \cup peek_reads(s)]
    IN  IF p # LF /\ ~is_at_end(s) THEN r ELSE At(r, "scan_tokens")

(* One evaluation of `while self.peek() != "\n" and not self.is_at_end()`  *)
(* of the comment, with the body when it holds.                            *)
comment(s) ==
    LET p == peek(s)
        r == [s EXCEPT !.reads = @ \cup peek_reads(s)]
    IN  IF p = IndexError THEN Raise(r)
        ELSE IF p # LF /\ ~is_at_end(s)
        THEN LET a == advance(r)
             IN  IF a.ret = IndexError THEN Raise(a.s) ELSE a.s
        ELSE At(r, "scan_tokens")

(* string() in which a backslash takes the character after it into the    *)
(* literal                                                                 *)
string_escapes(s) ==
    LET p == peek(s)
        r == [s EXCEPT !.reads = @ \cup peek_reads(s)]
    IN  IF p # QUOTE /\ ~is_at_end(s)
        THEN LET u == IF p = LF THEN [r EXCEPT !.line = @ + 1] ELSE r
                 a == advance(u).s
             IN  IF p = 92 /\ ~is_at_end(a) THEN advance(a).s ELSE a
        ELSE IF is_at_end(s)
        THEN At([r EXCEPT !.errors = Append(@, UnterminatedString(r.line)),
                          !.errpos = Append(@, r.start)],
                "scan_tokens")
        ELSE LET a == advance(r)
                 value == Slice(a.s.source, a.s.start + 1, a.s.current - 1)
             IN  At(add_token(a.s, "STRING", StrLiteral(value)), "scan_tokens")

(* string() without the return after the diagnostic: the unterminated      *)
(* literal is also emitted as a token                                      *)
string_no_return(s) ==
    LET p == peek(s)
        r == [s EXCEPT !.reads = @ \cup peek_reads(s)]
    IN  IF p # QUOTE /\ ~is_at_end(s)
        THEN LET u == IF p = LF THEN [r EXCEPT !.line = @ + 1] ELSE r
             IN  advance(u).s
        ELSE IF is_at_end(s)
        THEN LET e == [r EXCEPT !.errors = Append(@, UnterminatedString(r.line)),
                                !.errpos = Append(@, r.start)]
                 value == Slice(e.source, e.start + 1, e.current)
             IN  At(add_token(e, "STRING", StrLiteral(value)), "scan_tokens")
        ELSE LET a == advance(r)
                 value == Slice(a.s.source, a.s.start + 1, a.s.current - 1)
             IN  At(add_token(a.s, "STRING", StrLiteral(value)), "scan_tokens")

(* string(): one evaluation of the while condition with the body when it   *)
(* holds, and the rest of the method when it does not.                     *)
string(s) ==
    LET p == peek(s)
        r == [s EXCEPT !.reads = @ \cup peek_reads(s)]
    IN  IF p = IndexError THEN Raise(r)
        ELSE IF p # QUOTE /\ ~is_at_end(s)
        THEN LET u == IF p = LF THEN [r EXCEPT !.line = @ + 1] ELSE r
                 a == advance(u)
             IN  IF a.ret = IndexError THEN Raise(a.s) ELSE a.s
        ELSE IF is_at_end(s)
        THEN At([r EXCEPT !.errors = Append(@, UnterminatedString(r.line)),
                          !.errpos = Append(@, r.start)],
                "scan_tokens")
        ELSE LET a == advance(r)
                 value == Slice(a.s.source, a.s.start + 1, a.s.current - 1)
             IN  IF a.ret = IndexError THEN Raise(a.s)
                 ELSE At(add_token(a.s, "STRING", StrLiteral(value)), "scan_tokens")

(* number() taking a '.' into the number whatever follows it *)
number_dot_unchecked(s) ==
    LET p == peek(s)
        r == [s EXCEPT !.reads = @ \cup peek_reads(s)]
    IN  IF is_digit(p) THEN advance(r).s
        ELSE IF p = FULL_STOP THEN At(advance(r).s, "fraction")
        ELSE At(r, "fraction")

(* number(): the first digit loop, and at its exit the test for a          *)
(* fractional part.                                                        *)
number(s) ==
    LET p == peek(s)
        r == [s EXCEPT !.reads = @ \cup peek_reads(s)]
    IN  IF p = IndexError THEN Raise(r)
        ELSE IF is_digit(p)
        THEN LET a == advance(r)
             IN  IF a.ret = IndexError THEN Raise(a.s) ELSE a.s
        ELSE IF p = FULL_STOP
        THEN LET q == peek_next(r)
                 u == [r EXCEPT !.reads = @ \cup peek_next_reads(r)]
             IN  IF q = IndexError THEN Raise(u)
                 ELSE IF is_digit(q)
                 THEN LET a == advance(u)
                      IN  IF a.ret = IndexError THEN Raise(a.s)
                          ELSE At(a.s, "fraction")
                 ELSE At(u, "fraction")
        ELSE At(r, "fraction")

(* number(): the second digit loop, and at its exit the NUMBER token. *)
fraction(s) ==
    LET p == peek(s)
        r == [s EXCEPT !.reads = @ \cup peek_reads(s)]
    IN  IF p = IndexError THEN Raise(r)
        ELSE IF is_digit(p)
        THEN LET a == advance(r)
             IN  IF a.ret = IndexError THEN Raise(a.s) ELSE a.s
        ELSE LET value == float(Slice(r.source, r.start, r.current))
             IN  IF value.kind = "ValueError" THEN Raise(r)
                 ELSE At(add_token(r, "NUMBER", value), "scan_tokens")

(* identifier(): the loop, and at its exit the keyword or IDENTIFIER. *)
identifier(s) ==
    LET p == peek(s)
        r == [s EXCEPT !.reads = @ \cup peek_reads(s)]
    IN  IF p = IndexError THEN Raise(r)
        ELSE IF is_alpha_numeric(p)
        THEN LET a == advance(r)
             IN  IF a.ret = IndexError THEN Raise(a.s) ELSE a.s
        ELSE LET text == Slice(r.source, r.start, r.current)
             IN  At(add_token(r, identifier_type(text), None), "scan_tokens")

(* the body of the loop without self.start = self.current *)
scan_tokens_body_keeps_start(s) == scan_token(s)

(* scan_tokens: the body of the while loop up to the dispatch, and the     *)
(* two statements after the loop.                                          *)
scan_tokens_body(s) == scan_token([s EXCEPT !.start = s.current])

(* the EOF token made by add_token, as every other token is *)
scan_tokens_return_add_token(s) == At(add_token(s, "EOF", None), "returned")

(* the EOF token stamped with the first line *)
scan_tokens_return_first_line(s) ==
    At([s EXCEPT !.tokens = Append(@, Token("EOF", <<>>, None, 1))], "returned")

scan_tokens_return(s) ==
    At([s EXCEPT !.tokens = Append(@, Token("EOF", <<>>, None, s.line))],
       "returned")

(* The step the scanner takes next, and the scanner at the end of the run. *)
Step(s) ==
    LET r == [s EXCEPT !.reads = {}]
    IN  CASE s.pc = "scan_tokens" ->
                IF is_at_end(r) THEN scan_tokens_return(r) ELSE scan_tokens_body(r)
          [] s.pc = "comment"    -> comment(r)
          [] s.pc = "string"     -> string(r)
          [] s.pc = "number"     -> number(r)
          [] s.pc = "fraction"   -> fraction(r)
          [] s.pc = "identifier" -> identifier(r)
          [] OTHER               -> s

RECURSIVE Run(_)
Run(s) == IF s.pc \in {"returned", "raised"} THEN s ELSE Run(Step(s))

----------------------------------------------------------------------------
(* The state machine of one scan *)

VARIABLES source, tokens, start, current, line, errors, pc, spans, errpos, reads

(* What lives outside the scanner: the counter TOKENIZATION_REQUESTS, the  *)
(* number of calls of monitor_tokenization that have returned, a result    *)
(* (tokens, errors) an earlier call got from scan_tokens, and a second     *)
(* Scanner instance (None where there is none).                            *)
VARIABLES requests, finished, ref, other

vars == <<source, tokens, start, current, line, errors, pc, spans, errpos, reads,
          requests, finished, ref, other>>

(* One Scanner, no call of monitor_tokenization *)
Alone ==
    /\ requests = 0
    /\ finished = 0
    /\ ref = None
    /\ other = None

Self ==
    [source |-> source, tokens |-> tokens, start |-> start,
     current |-> current, line |-> line, errors |-> errors, pc |-> pc,
     spans |-> spans, errpos |-> errpos, reads |-> reads]

(* The scanner becomes s; s is evaluated once. *)
Becomes(s) ==
    \E n \in {s} :
        /\ source' = n.source
        /\ tokens' = n.tokens
        /\ start' = n.start
        /\ current' = n.current
        /\ line' = n.line
        /\ errors' = n.errors
        /\ pc' = n.pc
        /\ spans' = n.spans
        /\ errpos' = n.errpos
        /\ reads' = n.reads
        /\ UNCHANGED <<requests, finished, ref, other>>

Init ==
    \E src \in Sources :
        /\ source = Scanner(src).source
        /\ tokens = Scanner(src).tokens
        /\ start = Scanner(src).start
        /\ current = Scanner(src).current
        /\ line = Scanner(src).line
        /\ errors = Scanner(src).errors
        /\ pc = Scanner(src).pc
        /\ spans = Scanner(src).spans
        /\ errpos = Scanner(src).errpos
        /\ reads = Scanner(src).reads
        /\ Alone

ScanToken ==
    /\ pc = "scan_tokens"
    /\ ~is_at_end(Self)
    /\ Becomes(scan_tokens_body([Self EXCEPT !.reads = {}]))

Comment ==
    /\ pc = "comment"
    /\ Becomes(comment([Self EXCEPT !.reads = {}]))

String ==
    /\ pc = "string"
    /\ Becomes(string([Self EXCEPT !.reads = {}]))

Number ==
    /\ pc = "number"
    /\ Becomes(number([Self EXCEPT !.reads = {}]))

Fraction ==
    /\ pc = "fraction"
    /\ Becomes(fraction([Self EXCEPT !.reads = {}]))

Identifier ==
    /\ pc = "identifier"
    /\ Becomes(identifier([Self EXCEPT !.reads = {}]))

Return ==
    /\ pc = "scan_tokens"
    /\ is_at_end(Self)
    /\ Becomes(scan_tokens_return([Self EXCEPT !.reads = {}]))

Next ==
    \/ ScanToken
    \/ Comment
    \/ String
    \/ Number
    \/ Fraction
    \/ Identifier
    \/ Return

Spec == Init /\ [][Next]_vars

(* The scans of the sources made of identifier, keyword and string         *)
(* characters                                                              *)
LexemeInit ==
    \E src \in LexemeSources :
        /\ source = Scanner(src).source
        /\ tokens = Scanner(src).tokens
        /\ start = Scanner(src).start
        /\ current = Scanner(src).current
        /\ line = Scanner(src).line
        /\ errors = Scanner(src).errors
        /\ pc = Scanner(src).pc
        /\ spans = Scanner(src).spans
        /\ errpos = Scanner(src).errpos
        /\ reads = Scanner(src).reads
        /\ Alone

LexemeSpec == LexemeInit /\ [][Next]_vars

(* The scans of the sources of up to MaxLineLen newlines, quotes, slashes, *)
(* digits and letters                                                      *)
LineInit ==
    \E src \in LineSources :
        /\ source = Scanner(src).source
        /\ tokens = Scanner(src).tokens
        /\ start = Scanner(src).start
        /\ current = Scanner(src).current
        /\ line = Scanner(src).line
        /\ errors = Scanner(src).errors
        /\ pc = Scanner(src).pc
        /\ spans = Scanner(src).spans
        /\ errpos = Scanner(src).errpos
        /\ reads = Scanner(src).reads
        /\ Alone

LineSpec == LineInit /\ [][Next]_vars

(* The caller: main reads the contents of a file, monitor_tokenization     *)
(* constructs a Scanner on them and calls scan_tokens.  Before the         *)
(* construction `source` holds what has been read of the file.             *)
CallerInit ==
    /\ source = <<>>
    /\ tokens = <<>>
    /\ start = 0
    /\ current = 0
    /\ line = 1
    /\ errors = <<>>
    /\ pc = "main"
    /\ spans = <<>>
    /\ errpos = <<>>
    /\ reads = {}
    /\ Alone

(* file.read(): the file holds any text of at most MaxFileLen characters *)
ReadFile ==
    /\ pc = "main"
    /\ Len(source) < MaxFileLen
    /\ \E char \in FileAlphabet : source' = Append(source, char)
    /\ UNCHANGED <<tokens, start, current, line, errors, pc, spans, errpos, reads,
                   requests, finished, ref, other>>

(* monitor_tokenization(file_contents), its first statement:               *)
(* TOKENIZATION_REQUESTS.inc()                                             *)
Increment ==
    /\ pc = "main"
    /\ requests' = requests + 1
    /\ pc' = "monitor_tokenization"
    /\ UNCHANGED <<source, tokens, start, current, line, errors, spans, errpos, reads,
                   finished, ref, other>>

(* a Scanner whose tokens and errors are lists of the class, shared by all *)
(* its instances                                                           *)
Construct_class_lists ==
    /\ pc = "monitor_tokenization"
    /\ Becomes([Scanner(source) EXCEPT !.tokens = tokens, !.errors = errors])

(* scanner = Scanner(file_contents) *)
Construct ==
    /\ pc = "monitor_tokenization"
    /\ Becomes(Scanner(source))

CallerNext ==
    \/ ReadFile
    \/ Increment
    \/ Construct
    \/ ScanToken
    \/ Comment
    \/ String
    \/ Number
    \/ Fraction
    \/ Identifier
    \/ Return

(* The call is synchronous and single-threaded: nothing suspends it, a     *)
(* step that can be taken is taken.                                        *)
FairSpec == CallerInit /\ [][CallerNext]_vars /\ WF_vars(CallerNext)

(* tokens, errors = scanner.scan_tokens() has returned: the tokens are     *)
(* printed and monitor_tokenization returns.  Its result is the reference  *)
(* of later calls, or is forgotten.                                        *)
Finish ==
    /\ pc = "returned"
    /\ pc' = "done"
    /\ finished' = finished + 1
    /\ ref' \in {ref, [source |-> source, tokens |-> tokens, errors |-> errors,
                       call |-> finished + 1]}
    /\ UNCHANGED <<source, tokens, start, current, line, errors, spans, errpos, reads,
                   requests, other>>

(* The caller has other file contents to pass to monitor_tokenization *)
NextCall ==
    /\ pc = "done"
    /\ finished < MaxCalls
    /\ \E file_contents \in SmallSources : source' = file_contents
    /\ pc' = "main"
    /\ UNCHANGED <<tokens, start, current, line, errors, spans, errpos, reads,
                   requests, finished, ref, other>>

(* A process that calls monitor_tokenization up to MaxCalls times *)
SessionInit ==
    \E file_contents \in SmallSources :
        /\ source = file_contents
        /\ tokens = <<>>
        /\ start = 0
        /\ current = 0
        /\ line = 1
        /\ errors = <<>>
        /\ pc = "main"
        /\ spans = <<>>
        /\ errpos = <<>>
        /\ reads = {}
        /\ Alone

SessionNext ==
    \/ Increment
    \/ Construct
    \/ ScanToken
    \/ Comment
    \/ String
    \/ Number
    \/ Fraction
    \/ Identifier
    \/ Return
    \/ Finish
    \/ NextCall

SessionSpec == SessionInit /\ [][SessionNext]_vars

(* a step of a second instance through a tokens list and an errors list    *)
(* that are those of the first                                             *)
OtherStep_class_lists ==
    /\ other.pc \notin {"returned", "raised"}
    /\ \E n \in {Step([other EXCEPT !.tokens = tokens, !.errors = errors])} :
           /\ other' = n
           /\ tokens' = n.tokens
           /\ errors' = n.errors
    /\ UNCHANGED <<source, start, current, line, pc, spans, errpos, reads,
                   requests, finished, ref>>

(* One step of the second Scanner instance *)
OtherStep ==
    /\ other.pc \notin {"returned", "raised"}
    /\ other' = Step(other)
    /\ UNCHANGED <<source, tokens, start, current, line, errors, pc, spans, errpos,
                   reads, requests, finished, ref>>

(* Two Scanner instances, each on a source of its own, whose steps are     *)
(* taken in any order                                                      *)
PairInit ==
    \E src \in SmallSources, src2 \in SmallSources :
        /\ source = Scanner(src).source
        /\ tokens = Scanner(src).tokens
        /\ start = Scanner(src).start
        /\ current = Scanner(src).current
        /\ line = Scanner(src).line
        /\ errors = Scanner(src).errors
        /\ pc = Scanner(src).pc
        /\ spans = Scanner(src).spans
        /\ errpos = Scanner(src).errpos
        /\ reads = Scanner(src).reads
        /\ requests = 0
        /\ finished = 0
        /\ ref = None
        /\ other = Scanner(src2)

PairNext ==
    \/ ScanToken
    \/ Comment
    \/ String
    \/ Number
    \/ Fraction
    \/ Identifier
    \/ Return
    \/ OtherStep

PairSpec == PairInit /\ [][PairNext]_vars

----------------------------------------------------------------------------
(* Notions the properties are stated with *)

(* The number of newline characters in src[0:k] *)
Newlines(src, k) == Cardinality({i \in 1..Min(k, Len(src)) : src[i] = LF})

(* The tokens add_token appended: all of them but the EOF token *)
Emitted == {i \in 1..Len(tokens) : tokens[i].type # "EOF"}

----------------------------------------------------------------------------
(* C1: for every source, the empty one and those made only of invalid      *)
(* characters included, the token sequence scan_tokens returns has exactly *)
(* one EOF token, which is its last element, has an empty lexeme, no       *)
(* literal, and the final value of the line counter as its line.           *)
C1_EndsWithOneEOF ==
    pc = "returned" =>
        /\ Len(tokens) >= 1
        /\ {i \in 1..Len(tokens) : tokens[i].type = "EOF"} = {Len(tokens)}
        /\ tokens[Len(tokens)].lexeme = <<>>
        /\ tokens[Len(tokens)].literal = None
        /\ tokens[Len(tokens)].line = line

(* a source of two lines made only of invalid characters has been scanned *)
C1_Witness ==
    /\ pc = "returned"
    /\ Len(tokens) = 1
    /\ Len(errors) >= 2
    /\ line = 2

(* C2: every token's line is the line on which the token began: 1 + the    *)
(* number of newlines before its first character, a STRING token spanning  *)
(* several lines included.                                                 *)
C2_LineWhereTokenBegan ==
    /\ \A i \in 1..Len(spans) :
           tokens[i].line = 1 + Newlines(source, spans[i][1])
    /\ pc = "returned" =>
           tokens[Len(tokens)].line = 1 + Newlines(source, Len(source))

(* C3: every non-EOF token's lexeme is source[start:current] with          *)
(* 0 <= start < current <= len(source) when it is emitted: a contiguous,   *)
(* non-empty substring of the source.                                      *)
C3_LexemeIsSourceSlice ==
    /\ Emitted = 1..Len(spans)
    /\ \A i \in 1..Len(spans) :
           /\ 0 <= spans[i][1]
           /\ spans[i][1] < spans[i][2]
           /\ spans[i][2] <= Len(source)
           /\ tokens[i].lexeme # <<>>
           /\ tokens[i].lexeme = SubSeq(source, spans[i][1] + 1, spans[i][2])

(* a lexeme of several characters that ends where the source ends, after   *)
(* another token                                                           *)
C3_Witness ==
    /\ Len(spans) >= 2
    /\ spans[Len(spans)][2] = Len(source)
    /\ spans[Len(spans)][2] - spans[Len(spans)][1] >= 2

(* C4: line numbers never decrease along the token sequence, the EOF token *)
(* included.                                                               *)
C4_LinesNonDecreasing ==
    \A i \in 1..(Len(tokens) - 1) : tokens[i].line <= tokens[i + 1].line

(* tokens on three different lines, the last one being EOF *)
C4_Witness ==
    /\ pc = "returned"
    /\ Len(tokens) >= 3
    /\ tokens[1].line < tokens[2].line
    /\ tokens[2].line < tokens[Len(tokens)].line

(* C5: scan_tokens never fails: every character read (advance, peek,       *)
(* peek_next, match) is at an offset i with 0 <= i < len(source), every    *)
(* slice has its ends within the source, float() gets a number, so no      *)
(* step raises and the errors of the input are diagnostics.                *)
C5_NeverRaises ==
    /\ pc # "raised"
    /\ reads \subseteq 0..(Len(source) - 1)
    /\ 0 <= start /\ start <= current /\ current <= Len(source)
    /\ pc = "returned" => Len(errors) = Len(errpos)

(* the scan has returned with both kinds of diagnostic: an unexpected      *)
(* character first, an unterminated string last                            *)
C5_Witness ==
    /\ pc = "returned"
    /\ Len(errors) >= 2
    /\ Len(errors[1]) = 5
    /\ Len(errors[Len(errors)]) = 3

----------------------------------------------------------------------------
InnerLoops == {"comment", "string", "number", "fraction", "identifier"}

(* What one step does to the cursor *)
Progress ==
    /\ current' >= current
    /\ (pc = "scan_tokens" /\ pc' # "returned") => current' > current
    /\ (pc \in InnerLoops /\ pc' = pc) => current' = current + 1
    /\ pc' = "returned" => (current >= Len(source) /\ current' = current)
    /\ (pc = "scan_tokens" /\ current >= Len(source)) => pc' = "returned"

(* C6: for every source scan_tokens terminates and returns: each pass of   *)
(* the top-level loop moves the cursor forward by at least one, each pass  *)
(* of an inner loop (comment, string, number, identifier) moves it forward *)
(* by one, and the scan returns when the cursor has reached len(source).   *)
C6_Terminates == [][Progress]_vars /\ <>(pc = "returned")

(* a scan has returned after a comment that runs to the end of the source  *)
C6_Witness ==
    /\ pc = "returned"
    /\ Len(source) >= 3
    /\ source[1] = SOLIDUS /\ source[2] = SOLIDUS
    /\ LF \notin {source[i] : i \in 1..Len(source)}
    /\ Len(tokens) = 1

----------------------------------------------------------------------------
(* The diagnostics of the two kinds *)
IsUnterminated(e) == Len(e) = 3 /\ e[3] = "] Error: Unterminated string."
IsUnexpected(e) == Len(e) = 5 /\ e[4] = "Unexpected character: "

(* A double-quote opened at the offset `start` of the last dispatch and    *)
(* not closed before the end of the source                                 *)
OpenQuote ==
    /\ start < Len(source)
    /\ source[start + 1] = QUOTE
    /\ \A i \in (start + 2)..Len(source) : source[i] # QUOTE

(* C7: when a double-quote is opened and the source ends before a closing  *)
(* one, no STRING token is emitted for the literal, exactly one diagnostic *)
(* "[line N] Error: Unterminated string." is appended and the only token   *)
(* emitted afterwards is EOF; a result holds at most one such diagnostic   *)
(* and it is its last diagnostic.                                          *)
C7_UnterminatedString ==
    LET U == {k \in 1..Len(errors) : IsUnterminated(errors[k])}
    IN  /\ U \subseteq {Len(errors)}
        /\ pc = "returned" =>
               /\ OpenQuote <=> U # {}
               /\ OpenQuote =>
                      /\ errors[Len(errors)] =
                             <<"[line ", line, "] Error: Unterminated string.">>
                      /\ errpos[Len(errors)] = start
                      /\ \A i \in 1..Len(spans) : spans[i][2] <= start
                      /\ Len(tokens) = Len(spans) + 1
                      /\ tokens[Len(tokens)].type = "EOF"

(* a scan has returned with a token, an unexpected character and then a    *)
(* string left open over two lines                                         *)
C7_Witness ==
    /\ pc = "returned"
    /\ OpenQuote
    /\ Len(tokens) = 2
    /\ Len(errors) = 2
    /\ line = 2

(* The characters the top-level dispatch has a case for *)
Dispatched ==
    {LPAREN, RPAREN, LBRACE, RBRACE, ASTERISK, FULL_STOP, COMMA_SIGN,
     PLUS_SIGN, MINUS_SIGN, SEMI, BANG, EQUAL_SIGN, LESS_SIGN, GREATER_SIGN,
     SOLIDUS, SPACE, CR, TAB, LF, QUOTE, UNDERSCORE}
        \cup (DIGIT_0..DIGIT_9) \cup (UPPER_A..UPPER_Z) \cup (LOWER_A..LOWER_Z)

(* The step of the top-level dispatch on a character it has no case for *)
UnexpectedStep ==
    (/\ pc = "scan_tokens"
     /\ current < Len(source)
     /\ source[current + 1] \notin Dispatched)
    => /\ errors' = Append(errors, <<"[line ", line, "] Error: ",
                                     "Unexpected character: ", source[current + 1]>>)
       /\ tokens' = tokens
       /\ current' = current + 1
       /\ line' = line
       /\ pc' = "scan_tokens"

(* The source with the character at offset k replaced by a space *)
Blanked(src, k) == [src EXCEPT ![k + 1] = SPACE]

(* The tokens are those of the source in which a reported character is a   *)
(* space instead                                                           *)
AsIfSpace ==
    \A k \in 1..Len(errors) :
        IsUnexpected(errors[k]) =>
            /\ source[errpos[k] + 1] = errors[k][5]
            /\ Run(Scanner(Blanked(source, errpos[k]))).tokens = tokens

(* C8: a character met at the top-level dispatch that is no punctuation,   *)
(* operator character, whitespace, newline, double-quote, digit, letter    *)
(* or underscore appends exactly one diagnostic                            *)
(* "[line N] Error: Unexpected character: c", N the current line, emits no *)
(* token, moves the cursor by exactly one and leaves the line counter      *)
(* alone; the tokens of the scan are those of the source with that         *)
(* character replaced by a space.                                          *)
C8_UnexpectedCharacter ==
    [][UnexpectedStep]_vars /\ [](pc = "returned" => AsIfSpace)

(* a scan has returned with an unexpected character reported between two   *)
(* tokens, on the second line                                              *)
C8_Witness ==
    /\ pc = "returned"
    /\ \E k \in 1..Len(errors) :
           /\ IsUnexpected(errors[k])
           /\ errors[k][2] = 2
           /\ \E i \in 1..(Len(spans) - 1) :
                  spans[i][2] <= errpos[k] /\ errpos[k] < spans[i + 1][1]

(* The kinds of the one/two-character operators: <<with '=', alone>> *)
OperatorKinds ==
    BANG :> <<"BANG_EQUAL", "BANG">> @@
    EQUAL_SIGN :> <<"EQUAL_EQUAL", "EQUAL">> @@
    LESS_SIGN :> <<"LESS_EQUAL", "LESS">> @@
    GREATER_SIGN :> <<"GREATER_EQUAL", "GREATER">>

(* The step of the top-level dispatch on one of ! = < > *)
OperatorStep ==
    (/\ pc = "scan_tokens"
     /\ current < Len(source)
     /\ source[current + 1] \in DOMAIN OperatorKinds)
    => LET char == source[current + 1]
           followed == current + 1 < Len(source) /\ source[current + 2] = EQUAL_SIGN
       IN  /\ pc' = "scan_tokens"
           /\ errors' = errors
           /\ line' = line
           /\ IF followed
              THEN /\ current' = current + 2
                   /\ tokens' = Append(tokens, Token(OperatorKinds[char][1],
                                                     <<char, EQUAL_SIGN>>, None, line))
              ELSE /\ current' = current + 1
                   /\ tokens' = Append(tokens, Token(OperatorKinds[char][2],
                                                     <<char>>, None, line))

(* C9: for each of ! = < >, when the next character is '=' the scanner     *)
(* consumes both and emits the one token of the two-character kind with a  *)
(* two-character lexeme; otherwise (another character, or the end of the   *)
(* source) it emits the one-character kind and does not consume the next   *)
(* character.                                                              *)
C9_OperatorPairs == [][OperatorStep]_vars

(* both forms have been emitted: "<=" and then a lone '<' that ends the    *)
(* source                                                                  *)
C9_Witness ==
    /\ Len(tokens) >= 2
    /\ tokens[1].type = "LESS_EQUAL"
    /\ tokens[2].type = "LESS"
    /\ spans[2][2] = Len(source)

DigitChars == DIGIT_0..DIGIT_9

(* digit+ or digit+ '.' digit+ *)
NumberShape(lex) ==
    \E n \in 1..Len(lex) :
        /\ \A j \in 1..n : lex[j] \in DigitChars
        /\ \/ n = Len(lex)
           \/ /\ n + 2 <= Len(lex)
              /\ lex[n + 1] = FULL_STOP
              /\ \A j \in (n + 2)..Len(lex) : lex[j] \in DigitChars

(* The character of the source at offset k is a digit *)
DigitAt(k) == 0 <= k /\ k < Len(source) /\ source[k + 1] \in DigitChars

(* C10: every NUMBER lexeme is digit+ or digit+ '.' digit+ and is maximal; *)
(* a '.' is taken into the number only when a digit follows it, so a digit *)
(* run followed by a '.' with no digit after it gives NUMBER for the run   *)
(* and a separate DOT, and a '.' with no digit before it gives DOT and     *)
(* then NUMBER.                                                            *)
C10_NumberShape ==
    \A i \in 1..Len(spans) :
        LET b == spans[i][1]
            e == spans[i][2]
            HasNext == i < Len(spans)
        IN  /\ tokens[i].type = "NUMBER" =>
                /\ NumberShape(tokens[i].lexeme)
                /\ ~DigitAt(b - 1)
                /\ ~DigitAt(e)
                /\ (\A j \in 1..Len(tokens[i].lexeme) : tokens[i].lexeme[j] # FULL_STOP)
                       => ~(e < Len(source) /\ source[e + 1] = FULL_STOP /\ DigitAt(e + 1))
                /\ (e < Len(source) /\ source[e + 1] = FULL_STOP) =>
                       /\ pc = "returned" => HasNext
                       /\ HasNext => /\ tokens[i + 1].type = "DOT"
                                     /\ spans[i + 1] = <<e, e + 1>>
            /\ (tokens[i].type = "DOT" /\ DigitAt(e)) =>
                   /\ pc = "returned" => HasNext
                   /\ HasNext => /\ tokens[i + 1].type = "NUMBER"
                                 /\ spans[i + 1][1] = e

(* a scan has returned a NUMBER that took a '.' followed by a digit, and   *)
(* then a DOT for the '.' that no digit follows                            *)
C10_Witness ==
    /\ pc = "returned"
    /\ Len(tokens) = 3
    /\ tokens[1].type = "NUMBER"
    /\ FULL_STOP \in {tokens[1].lexeme[j] : j \in 1..Len(tokens[1].lexeme)}
    /\ tokens[2].type = "DOT"
    /\ spans[2][2] = Len(source)

----------------------------------------------------------------------------
LetterChars == (UPPER_A..UPPER_Z) \cup (LOWER_A..LOWER_Z) \cup {UNDERSCORE}
WordChars == LetterChars \cup DigitChars

(* The 16 reserved words: <<spelling, kind>> *)
Keywords ==
    {<< <<97, 110, 100>>, "AND" >>,
     << <<99, 108, 97, 115, 115>>, "CLASS" >>,
     << <<101, 108, 115, 101>>, "ELSE" >>,
     << <<102, 97, 108, 115, 101>>, "FALSE" >>,
     << <<102, 111, 114>>, "FOR" >>,
     << <<102, 117, 110>>, "FUN" >>,
     << <<105, 102>>, "IF" >>,
     << <<110, 105, 108>>, "NIL" >>,
     << <<111, 114>>, "OR" >>,
     << <<112, 114, 105, 110, 116>>, "PRINT" >>,
     << <<114, 101, 116, 117, 114, 110>>, "RETURN" >>,
     << <<115, 117, 112, 101, 114>>, "SUPER" >>,
     << <<116, 104, 105, 115>>, "THIS" >>,
     << <<116, 114, 117, 101>>, "TRUE" >>,
     << <<118, 97, 114>>, "VAR" >>,
     << <<119, 104, 105, 108, 101>>, "WHILE" >>}

(* The kind of a word: reserved when the whole word is a reserved word *)
KindOf(word) ==
    IF \E k \in Keywords : k[1] = word
    THEN (CHOOSE k \in Keywords : k[1] = word)[2]
    ELSE "IDENTIFIER"

(* C11: a token that starts with an ASCII letter or underscore has as      *)
(* lexeme the maximal run of ASCII letters, digits and underscores from    *)
(* there; its kind is the reserved-word kind exactly when the whole lexeme *)
(* is, case-sensitively, one of the 16 reserved words, IDENTIFIER          *)
(* otherwise; it has no literal; a reserved word that is only a prefix of  *)
(* the run gives IDENTIFIER.                                               *)
C11_IdentifierOrKeyword ==
    /\ Cardinality(Keywords) = 16
    /\ \A i \in 1..Len(spans) :
        LET b == spans[i][1]
            e == spans[i][2]
            lex == tokens[i].lexeme
            IsWord == tokens[i].type \in {k[2] : k \in Keywords} \cup {"IDENTIFIER"}
        IN  /\ IsWord <=> source[b + 1] \in LetterChars
            /\ IsWord =>
                  /\ lex = SubSeq(source, b + 1, e)
                  /\ \A j \in 1..Len(lex) : lex[j] \in WordChars
                  /\ e < Len(source) => source[e + 1] \notin WordChars
                  /\ tokens[i].type = KindOf(lex)
                  /\ tokens[i].literal = None

(* a scan has returned IDENTIFIER for a run that begins with a reserved    *)
(* word and goes on ("if_", "orr", ...), after a token                     *)
C11_Witness ==
    /\ pc = "returned"
    /\ Len(tokens) = 3
    /\ tokens[2].type = "IDENTIFIER"
    /\ Len(tokens[2].lexeme) = 3
    /\ KindOf(SubSeq(tokens[2].lexeme, 1, 2)) # "IDENTIFIER"

(* C12: every STRING lexeme starts with a double-quote, ends with the      *)
(* first double-quote after it and has no other double-quote; its literal  *)
(* is the lexeme without its first and last characters, with no escape     *)
(* processing: a backslash before a double-quote does not keep the string  *)
(* open.                                                                   *)
C12_StringLexeme ==
    \A i \in 1..Len(spans) :
        LET b == spans[i][1]
            e == spans[i][2]
            lex == tokens[i].lexeme
        IN  /\ tokens[i].type = "STRING" =>
                  /\ Len(lex) >= 2
                  /\ lex = SubSeq(source, b + 1, e)
                  /\ lex[1] = QUOTE
                  /\ lex[Len(lex)] = QUOTE
                  /\ \A j \in 2..(Len(lex) - 1) : lex[j] # QUOTE
                  /\ tokens[i].literal = StrLiteral(SubSeq(lex, 2, Len(lex) - 1))
            /\ tokens[i].literal.kind = "str" => tokens[i].type = "STRING"

(* a scan has returned a STRING that a backslash and a double-quote end,   *)
(* and the double-quote after it has opened a string that is never closed  *)
C12_Witness ==
    /\ pc = "returned"
    /\ Len(tokens) = 2
    /\ tokens[1].type = "STRING"
    /\ tokens[1].lexeme = <<QUOTE, 92, QUOTE>>
    /\ tokens[1].literal = StrLiteral(<<92>>)
    /\ Len(errors) = 1

----------------------------------------------------------------------------
(* The steps of the scanner on a '/' and inside a comment *)
SlashStep ==
    /\ (/\ pc = "scan_tokens"
        /\ current < Len(source)
        /\ source[current + 1] = SOLIDUS)
       => /\ line' = line
          /\ errors' = errors
          /\ IF current + 1 < Len(source) /\ source[current + 2] = SOLIDUS
             THEN /\ pc' = "comment"
                  /\ current' = current + 2
                  /\ tokens' = tokens
             ELSE /\ pc' = "scan_tokens"
                  /\ current' = current + 1
                  /\ tokens' = Append(tokens, Token("SLASH", <<SOLIDUS>>, None, line))
    /\ pc = "comment"
       => /\ line' = line
          /\ errors' = errors
          /\ tokens' = tokens
          /\ IF current < Len(source) /\ source[current + 1] # LF
             THEN pc' = "comment" /\ current' = current + 1
             ELSE /\ pc' = "scan_tokens"
                  /\ current' = current
                  /\ \A k \in (start + 1)..current : source[k] # LF

(* C13: when '/' is followed by a second '/', the scanner consumes the     *)
(* characters up to but not including the next newline (or up to the end   *)
(* of the source), emits no token for them and leaves the line counter     *)
(* alone; when '/' is followed by anything else or ends the source, it     *)
(* emits SLASH with a one-character lexeme.                                *)
C13_CommentOrSlash == [][SlashStep]_vars

(* a comment has just ended in front of the newline that follows it, and   *)
(* nothing was emitted                                                     *)
C13_Witness ==
    /\ pc = "scan_tokens"
    /\ start = 0
    /\ current >= 3
    /\ current < Len(source)
    /\ source[1] = SOLIDUS /\ source[2] = SOLIDUS
    /\ source[current + 1] = LF
    /\ tokens = <<>>
    /\ line = 1

(* A step appends at most one diagnostic and touches no earlier one *)
AppendOnly ==
    /\ Len(errors') \in {Len(errors), Len(errors) + 1}
    /\ SubSeq(errors', 1, Len(errors)) = errors

(* The k-th diagnostic is about the k-th place of the source, from left to *)
(* right, at which an error was met                                        *)
DiagnosticsInOrder ==
    /\ Len(errpos) = Len(errors)
    /\ \A k \in 1..Len(errors) :
           /\ errpos[k] < Len(source)
           /\ IsUnexpected(errors[k]) \/ IsUnterminated(errors[k])
           /\ IsUnexpected(errors[k]) =>
                  /\ errors[k][5] = source[errpos[k] + 1]
                  /\ errors[k][2] = 1 + Newlines(source, errpos[k])
           /\ IsUnterminated(errors[k]) => source[errpos[k] + 1] = QUOTE
    /\ \A k \in 1..(Len(errors) - 1) :
           /\ errpos[k] < errpos[k + 1]
           /\ errors[k][2] <= errors[k + 1][2]

(* C14: diagnostics are appended in the order their errors occur in the    *)
(* source: the k-th diagnostic is the one of the k-th error position from  *)
(* left to right, no diagnostic is ever removed or reordered, and the line *)
(* numbers of successive diagnostics never decrease.                       *)
C14_DiagnosticsOrder == [][AppendOnly]_vars /\ []DiagnosticsInOrder

(* a scan has returned three diagnostics, of the two kinds, on two lines   *)
C14_Witness ==
    /\ pc = "returned"
    /\ Len(errors) = 3
    /\ IsUnexpected(errors[1])
    /\ IsUnterminated(errors[3])
    /\ errors[1][2] < errors[3][2]

(* C15: scanning is deterministic and free of hidden state: two scans of   *)
(* the same source, each with a fresh Scanner, return identical token      *)
(* sequences (kind, lexeme, literal, line) and identical diagnostic        *)
(* sequences, whatever other scans ran before or between them.             *)
C15_Deterministic ==
    (pc = "returned" /\ ref # None /\ ref.source = source)
    => /\ Len(tokens) = Len(ref.tokens)
       /\ \A i \in 1..Len(tokens) :
              /\ tokens[i].type = ref.tokens[i].type
              /\ tokens[i].lexeme = ref.tokens[i].lexeme
              /\ tokens[i].literal = ref.tokens[i].literal
              /\ tokens[i].line = ref.tokens[i].line
       /\ errors = ref.errors

(* the third call has scanned, to a token and a diagnostic, the source of  *)
(* the first call                                                          *)
C15_Witness ==
    /\ pc = "returned"
    /\ finished = 2
    /\ ref # None
    /\ ref.call = 1
    /\ ref.source = source
    /\ Len(tokens) = 2
    /\ Len(errors) = 1

(* The lexeme of token i holds a newline *)
MultiLine(i) == \E k \in 1..Len(tokens[i].lexeme) : tokens[i].lexeme[k] = LF

(* C16: at the start of every top-level iteration and on return the line   *)
(* counter is 1 + the number of newlines in source[0:current], each        *)
(* newline counted once, at top level, at the end of a comment or inside a *)
(* string, terminated or not; hence the token after a multi-line string    *)
(* reports 1 + the number of newlines before it.                           *)
C16_LineCounter ==
    /\ pc \in {"scan_tokens", "returned"} => line = 1 + Newlines(source, current)
    /\ \A i \in 2..Len(spans) :
           (tokens[i - 1].type = "STRING" /\ MultiLine(i - 1))
           => tokens[i].line = 1 + Newlines(source, spans[i][1])

(* What one step does to the cursor, and where it reads the source *)
CursorStep ==
    /\ current' >= current
    /\ \A i \in reads' : current <= i /\ i <= current + 1

(* The ranges [start, current) of the tokens follow one another *)
RangesInOrder ==
    /\ \A i \in 1..Len(spans) : spans[i][1] < spans[i][2]
    /\ \A i \in 1..(Len(spans) - 1) : spans[i][2] <= spans[i + 1][1]
    /\ \A i \in 1..Len(spans) : spans[i][2] <= current

(* C17: the cursor never decreases during a scan and is len(source) on     *)
(* return; the ranges [start, current) of successive tokens are disjoint   *)
(* and increasing, so every character is consumed once and is in at most   *)
(* one lexeme; no step reads a character further than one position past    *)
(* the cursor.                                                             *)
C17_SinglePass ==
    /\ [][CursorStep]_vars
    /\ [](RangesInOrder /\ (pc = "returned" => current = Len(source)))

(* a scan has returned two tokens with a character of no token between     *)
(* them, the second read with a look one past the cursor                   *)
C17_Witness ==
    /\ pc = "returned"
    /\ Len(spans) = 2
    /\ spans[1][2] < spans[2][1]
    /\ tokens[2].type = "NUMBER"
    /\ spans[2][2] = Len(source)

(* A step of one instance leaves the fields of the other alone *)
StepOfOne ==
    /\ other' # other
       => UNCHANGED <<source, start, current, line, tokens, errors>>
    /\ <<source, start, current, line, tokens, errors>>'
           # <<source, start, current, line, tokens, errors>>
       => /\ other'.source = other.source
          /\ other'.start = other.start
          /\ other'.current = other.current
          /\ other'.line = other.line
          /\ other'.tokens = other.tokens
          /\ other'.errors = other.errors

(* What each instance returns is what the scan of its source returns when  *)
(* it runs with no other                                                   *)
AsWhenAlone ==
    /\ pc = "returned"
       => /\ tokens = Run(Scanner(source)).tokens
          /\ errors = Run(Scanner(source)).errors
    /\ other.pc = "returned"
       => /\ other.tokens = Run(Scanner(other.source)).tokens
          /\ other.errors = Run(Scanner(other.source)).errors

(* C18: two Scanner instances scanning different sources, their steps      *)
(* interleaved in any order, share no mutable state: a step of one leaves  *)
(* the other's source, start, current, line, tokens and errors unchanged,  *)
(* and each returns the same result as when run alone.                     *)
C18_NoSharedState == [][StepOfOne]_vars /\ []AsWhenAlone

(* both instances have returned, each the tokens and the diagnostic of its *)
(* own source                                                              *)
C18_Witness ==
    /\ pc = "returned"
    /\ other.pc = "returned"
    /\ source # other.source
    /\ Len(tokens) = 2 /\ Len(errors) = 1
    /\ Len(other.tokens) = 3 /\ Len(other.errors) = 0

(* The scans that have completed: those of the calls that have returned,   *)
(* and the one of the call under way once scan_tokens has returned         *)
CompletedScans == finished + (IF pc = "returned" THEN 1 ELSE 0)

(* The calls of monitor_tokenization so far *)
Calls == finished + (IF pc \in {"main", "done"} THEN 0 ELSE 1)

(* C19: the request counter is an independent observer notified once per   *)
(* completed scan: monitor_tokenization increments it exactly once per     *)
(* call, the increment does not change the scan's tokens or diagnostics,   *)
(* and the counter never exceeds the number of scans that have completed.  *)
C19_CounterObserves ==
    /\ requests = Calls
    /\ pc = "returned"
       => /\ tokens = Run(Scanner(source)).tokens
          /\ errors = Run(Scanner(source)).errors
    /\ requests <= CompletedScans

====
